---------------------------- MODULE Spec2Model ----------------------------
(***************************************************************************)
(* The movie store of go-crud-api: one shared slice `movies`, five HTTP    *)
(* handlers (getMovies, getMovie, createMovie, updateMovie, deleteMovie).  *)
(*                                                                         *)
(* Spec      one request at a time, every handler one atomic action.       *)
(* SpecConc  handlers of concurrent requests interleaved at the level of   *)
(*           their accesses to the shared slice (net/http runs every       *)
(*           request in its own goroutine and the slice has no lock).      *)
(*                                                                         *)
(* Strings that are ids are sequences of one-character strings, so that    *)
(* strconv.Itoa is a real conversion.  A Go pointer and a JSON value that  *)
(* may be null are sequences of length 0 or 1.  Go indexes from 0: the Go  *)
(* expression movies[i] is movies[i + 1] here.                             *)
(***************************************************************************)
EXTENDS Integers, Sequences, FiniteSets, TLC

VARIABLES movies, req, resp, loop, h, nreq, tally

vars == <<movies, req, resp, loop, h, nreq, tally>>

(***************************************************************************)
(* Bounds of the model.                                                    *)
(***************************************************************************)
MaxLen == 3

MaxReqs == 2

MaxCreates == 2

(***************************************************************************)
(* Program constants.                                                      *)
(***************************************************************************)
RandLimit == 1000000

(***************************************************************************)
(* Data: Movie and Director, and their JSON form.                          *)
(***************************************************************************)
Director(first, last) == [Firstname |-> first, Lastname |-> last]

Movie(id, isbn, title, director) ==
    [ID |-> id, Isbn |-> isbn, Title |-> title, Director |-> director]

ZeroMovie == Movie(<<>>, "", "", <<>>)

\* the two seed movies appended in the other order
SeedSwapped ==
    <<Movie(<<"2">>, "654321", "Movie Two", <<Director("Joe", "Biden")>>),
      Movie(<<"1">>, "123456", "Movie One", <<Director("Lebron", "James")>>)>>

Seed ==
    <<Movie(<<"1">>, "123456", "Movie One", <<Director("Lebron", "James")>>),
      Movie(<<"2">>, "654321", "Movie Two", <<Director("Joe", "Biden")>>)>>

DigitChars == <<"0", "1", "2", "3", "4", "5", "6", "7", "8", "9">>

RECURSIVE Itoa(_)
Itoa(n) ==
    IF n < 10 THEN <<DigitChars[n + 1]>>
    ELSE Append(Itoa(n \div 10), DigitChars[(n % 10) + 1])

EncodeDirector(d) == [firstname |-> d.Firstname, lastname |-> d.Lastname]

Encode(m) ==
    [id |-> m.ID, isbn |-> m.Isbn, title |-> m.Title,
     director |-> IF m.Director = <<>> THEN <<>>
                  ELSE <<EncodeDirector(m.Director[1])>>]

RECURSIVE EncodeAll(_)
EncodeAll(ms) ==
    IF ms = <<>> THEN <<>>
    ELSE <<Encode(Head(ms))>> \o EncodeAll(Tail(ms))

DecodeDirector(j) ==
    [Firstname |-> IF "firstname" \in DOMAIN j THEN j.firstname ELSE "",
     Lastname  |-> IF "lastname" \in DOMAIN j THEN j.lastname ELSE ""]

Decode(body) ==
    IF ~body.ok THEN ZeroMovie
    ELSE LET j == body.json
         IN  [ID    |-> IF "id" \in DOMAIN j THEN j.id ELSE <<>>,
              Isbn  |-> IF "isbn" \in DOMAIN j THEN j.isbn ELSE "",
              Title |-> IF "title" \in DOMAIN j THEN j.title ELSE "",
              Director |->
                  IF "director" \in DOMAIN j /\ j.director # <<>>
                  THEN <<DecodeDirector(j.director[1])>>
                  ELSE <<>>]

(***************************************************************************)
(* Inputs.                                                                 *)
(***************************************************************************)
Malformed == [ok |-> FALSE]

BodyFull ==
    [ok |-> TRUE,
     json |-> [id |-> <<"2">>, isbn |-> "999", title |-> "New",
               director |-> <<[firstname |-> "A", lastname |-> "B"]>>]]

BodyNoDirector ==
    [ok |-> TRUE, json |-> [isbn |-> "111", title |-> "Other", director |-> <<>>]]

Bodies == {BodyFull, BodyNoDirector, Malformed}

PathIds == {<<"1">>, <<"2">>, <<"9", "9", "9", "9", "9", "9">>}

RandInts == {1, RandLimit - 1}

NoRequest == [op |-> "start", id |-> <<>>, body |-> Malformed, rnd |-> 0]

Request(op, id, body, rnd) == [op |-> op, id |-> id, body |-> body, rnd |-> rnd]

(***************************************************************************)
(* The response: net/http answers 200 when the handler sets no status; the *)
(* body is the sequence of JSON values the handler encoded into it.        *)
(***************************************************************************)
Response(written) ==
    [status |-> 200, contentType |-> "application/json", body |-> written]

NoResponse == [status |-> 0, contentType |-> "", body |-> <<>>]

(***************************************************************************)
(* Slice operations.                                                       *)
(***************************************************************************)
\* the scan `for i := 0; i < len(movies); i++ { if movies[i].ID == id {...} }`:
\* the index of the first match from i on, len(ms) when there is none
RECURSIVE Scan(_, _, _)
Scan(ms, id, i) ==
    IF ~(i < Len(ms)) THEN i
    ELSE IF ms[i + 1].ID = id THEN i
    ELSE Scan(ms, id, i + 1)

\* append(movies[:i], movies[i:]...): the record at i stays
RemoveAtOffByOne(ms, i) == SubSeq(ms, 1, i) \o SubSeq(ms, i + 1, Len(ms))

\* append(movies[:i], movies[i+1:]...)
RemoveAt(ms, i) == SubSeq(ms, 1, i) \o SubSeq(ms, i + 2, Len(ms))

Procs == {1, 2}

\* a handler goroutine: its place in the code and its local variables
IdleHandler ==
    [pc |-> "idle", op |-> "none", id |-> <<>>, body |-> Malformed, rnd |-> 0,
     i |-> 0, snap |-> <<>>, movie |-> ZeroMovie, resp |-> NoResponse]

(***************************************************************************)
(* Spec: the handlers, one request at a time.                              *)
(***************************************************************************)
Idle == \A p \in DOMAIN h : h[p].pc = "idle"

\* where the handler's scan stopped: its index i and the len(movies) it ran
\* against (i < len: at a match; i = len: no match); NoLoop for no scan
Stopped(i, len) == [i |-> i, len |-> len]

NoLoop == Stopped(0, 0)

\* a list that answers with a first page of two records
getMoviesFirstPage ==
    /\ Idle
    /\ req' = Request("list", <<>>, Malformed, 0)
    /\ resp' = Response(<<EncodeAll(SubSeq(movies, 1,
                         IF Len(movies) < 2 THEN Len(movies) ELSE 2))>>)
    /\ loop' = NoLoop
    /\ UNCHANGED <<movies, h, nreq>>

getMovies ==
    /\ Idle
    /\ req' = Request("list", <<>>, Malformed, 0)
    /\ resp' = Response(<<EncodeAll(movies)>>)
    /\ loop' = NoLoop
    /\ UNCHANGED <<movies, h, nreq>>

\* a scan that keeps going and answers with the last match
getMovieLastMatch(id) ==
    /\ Idle
    /\ req' = Request("get", id, Malformed, 0)
    /\ LET hits == {k \in 1..Len(movies) : movies[k].ID = id}
           i == IF hits = {} THEN Len(movies)
                ELSE (CHOOSE k \in hits : \A j \in hits : j <= k) - 1
       IN  /\ resp' = IF i < Len(movies)
                      THEN Response(<<Encode(movies[i + 1])>>)
                      ELSE Response(<<>>)
           /\ loop' = Stopped(i, Len(movies))
    /\ UNCHANGED <<movies, h, nreq>>

getMovie(id) ==
    /\ Idle
    /\ req' = Request("get", id, Malformed, 0)
    /\ LET i == Scan(movies, id, 0)
       IN  /\ resp' = IF i < Len(movies)
                      THEN Response(<<Encode(movies[i + 1])>>)
                      ELSE Response(<<>>)
           /\ loop' = Stopped(i, Len(movies))
    /\ UNCHANGED <<movies, h, nreq>>

\* a delete that moves the last record into the place of the removed one
deleteMovieSwapWithLast(id) ==
    /\ Idle
    /\ req' = Request("delete", id, Malformed, 0)
    /\ LET i == Scan(movies, id, 0)
           n == Len(movies)
       IN  /\ movies' = IF i < n
                        THEN SubSeq([movies EXCEPT ![i + 1] = movies[n]], 1, n - 1)
                        ELSE movies
           /\ loop' = Stopped(i, n)
    /\ resp' = Response(<<>>)
    /\ UNCHANGED <<h, nreq>>

\* a delete that drops the last record when it finds no match
deleteMovieDropsLast(id) ==
    /\ Idle
    /\ req' = Request("delete", id, Malformed, 0)
    /\ LET i == Scan(movies, id, 0)
       IN  /\ movies' = IF i < Len(movies) THEN RemoveAt(movies, i)
                        ELSE SubSeq(movies, 1, Len(movies) - 1)
           /\ loop' = Stopped(i, Len(movies))
    /\ resp' = Response(<<>>)
    /\ UNCHANGED <<h, nreq>>

\* a delete without the `break`: every record with the id goes
deleteMovieNoBreak(id) ==
    /\ Idle
    /\ req' = Request("delete", id, Malformed, 0)
    /\ movies' = SelectSeq(movies, LAMBDA m : m.ID # id)
    /\ loop' = Stopped(Scan(movies, id, 0), Len(movies))
    /\ resp' = Response(<<>>)
    /\ UNCHANGED <<h, nreq>>

deleteMovie(id) ==
    /\ Idle
    /\ req' = Request("delete", id, Malformed, 0)
    /\ LET i == Scan(movies, id, 0)
       IN  /\ movies' = IF i < Len(movies) THEN RemoveAt(movies, i) ELSE movies
           /\ loop' = Stopped(i, Len(movies))
    /\ resp' = Response(<<>>)
    /\ UNCHANGED <<h, nreq>>

\* a create that rejects a body it cannot parse
createMovieRejectsMalformed(body, rnd) ==
    /\ Idle
    /\ Len(movies) < MaxLen
    /\ req' = Request("create", <<>>, body, rnd)
    /\ LET movie == [Decode(body) EXCEPT !.ID = Itoa(rnd)]
       IN  IF ~body.ok
           THEN /\ movies' = movies
                /\ resp' = [Response(<<>>) EXCEPT !.status = 400]
           ELSE /\ movies' = Append(movies, movie)
                /\ resp' = Response(<<Encode(movie)>>)
    /\ loop' = NoLoop
    /\ UNCHANGED <<h, nreq>>

\* a create that refuses an id some record has
createMovieUniqueIds(body, rnd) ==
    /\ Idle
    /\ Len(movies) < MaxLen
    /\ req' = Request("create", <<>>, body, rnd)
    /\ LET movie == [Decode(body) EXCEPT !.ID = Itoa(rnd)]
       IN  IF \E k \in 1..Len(movies) : movies[k].ID = movie.ID
           THEN /\ movies' = movies
                /\ resp' = Response(<<>>)
           ELSE /\ movies' = Append(movies, movie)
                /\ resp' = Response(<<Encode(movie)>>)
    /\ loop' = NoLoop
    /\ UNCHANGED <<h, nreq>>

\* a create that keeps the id of the body when the body has one
createMovieKeepsBodyId(body, rnd) ==
    /\ Idle
    /\ Len(movies) < MaxLen
    /\ req' = Request("create", <<>>, body, rnd)
    /\ LET decoded == Decode(body)
           movie == IF decoded.ID # <<>> THEN decoded
                    ELSE [decoded EXCEPT !.ID = Itoa(rnd)]
       IN  /\ movies' = Append(movies, movie)
           /\ resp' = Response(<<Encode(movie)>>)
    /\ loop' = NoLoop
    /\ UNCHANGED <<h, nreq>>

createMovie(body, rnd) ==
    /\ Idle
    /\ Len(movies) < MaxLen
    /\ req' = Request("create", <<>>, body, rnd)
    /\ LET movie == [Decode(body) EXCEPT !.ID = Itoa(rnd)]
       IN  /\ movies' = Append(movies, movie)
           /\ resp' = Response(<<Encode(movie)>>)
    /\ loop' = NoLoop
    /\ UNCHANGED <<h, nreq>>

\* an update that returns on a body it cannot parse, after the removal
updateMovieDropsOnBadBody(id, body) ==
    /\ Idle
    /\ req' = Request("update", id, body, 0)
    /\ LET i == Scan(movies, id, 0)
       IN  /\ loop' = Stopped(i, Len(movies))
           /\ IF i < Len(movies)
              THEN LET movie == [Decode(body) EXCEPT !.ID = id]
                   IN  IF ~body.ok
                       THEN /\ movies' = RemoveAt(movies, i)
                            /\ resp' = Response(<<>>)
                       ELSE /\ movies' = Append(RemoveAt(movies, i), movie)
                            /\ resp' = Response(<<Encode(movie)>>)
              ELSE /\ movies' = movies
                   /\ resp' = Response(<<>>)
    /\ UNCHANGED <<h, nreq>>

\* an update that keeps the id of the body when the body has one
updateMovieKeepsBodyId(id, body) ==
    /\ Idle
    /\ req' = Request("update", id, body, 0)
    /\ LET i == Scan(movies, id, 0)
       IN  /\ loop' = Stopped(i, Len(movies))
           /\ IF i < Len(movies)
              THEN LET decoded == Decode(body)
                       movie == IF decoded.ID # <<>> THEN decoded
                                ELSE [decoded EXCEPT !.ID = id]
                   IN  /\ movies' = Append(RemoveAt(movies, i), movie)
                       /\ resp' = Response(<<Encode(movie)>>)
              ELSE /\ movies' = movies
                   /\ resp' = Response(<<>>)
    /\ UNCHANGED <<h, nreq>>

\* an update that creates the record when no record has the id
updateMovieUpsert(id, body) ==
    /\ Idle
    /\ req' = Request("update", id, body, 0)
    /\ LET i == Scan(movies, id, 0)
           movie == [Decode(body) EXCEPT !.ID = id]
       IN  /\ loop' = Stopped(i, Len(movies))
           /\ movies' = Append(IF i < Len(movies) THEN RemoveAt(movies, i)
                               ELSE movies, movie)
           /\ resp' = Response(<<Encode(movie)>>)
    /\ UNCHANGED <<h, nreq>>

\* an update that puts the new record back at the index of the old one
updateMovieInPlace(id, body) ==
    /\ Idle
    /\ req' = Request("update", id, body, 0)
    /\ LET i == Scan(movies, id, 0)
       IN  /\ loop' = Stopped(i, Len(movies))
           /\ IF i < Len(movies)
              THEN LET movie == [Decode(body) EXCEPT !.ID = id]
                   IN  /\ movies' = [movies EXCEPT ![i + 1] = movie]
                       /\ resp' = Response(<<Encode(movie)>>)
              ELSE /\ movies' = movies
                   /\ resp' = Response(<<>>)
    /\ UNCHANGED <<h, nreq>>

updateMovie(id, body) ==
    /\ Idle
    /\ req' = Request("update", id, body, 0)
    /\ LET i == Scan(movies, id, 0)
       IN  /\ loop' = Stopped(i, Len(movies))
           /\ IF i < Len(movies)
              THEN LET movie == [Decode(body) EXCEPT !.ID = id]
                   IN  /\ movies' = Append(RemoveAt(movies, i), movie)
                       /\ resp' = Response(<<Encode(movie)>>)
              ELSE /\ movies' = movies
                   /\ resp' = Response(<<>>)
    /\ UNCHANGED <<h, nreq>>

(***************************************************************************)
(* SpecConc: concurrent requests.  A step is one access of a handler to    *)
(* the shared slice together with the local computation that follows it.   *)
(* Reading `movies` copies the slice value; `movies = append(...)` is a    *)
(* read of the slice, then a write of the result.  An index or a slice     *)
(* bound outside the length that is read panics, and net/http ends the     *)
(* request without a response.                                             *)
(***************************************************************************)
Entry(op) ==
    CASE op = "list"   -> "l_encode"
      [] op = "get"    -> "g_cond"
      [] op = "delete" -> "d_cond"
      [] op = "create" -> "c_read"
      [] op = "update" -> "u_cond"

Requests ==
    {Request("list", <<>>, Malformed, 0)}
    \cup {Request("get", id, Malformed, 0) : id \in PathIds}
    \cup {Request("delete", id, Malformed, 0) : id \in PathIds}
    \cup {Request("create", <<>>, b, n) : b \in Bodies, n \in RandInts}
    \cup {Request("update", id, b, 0) : id \in PathIds, b \in Bodies}

Goto(p, label) == h' = [h EXCEPT ![p].pc = label]

Return(p, written) ==
    h' = [h EXCEPT ![p] = [IdleHandler EXCEPT !.pc = "done", !.op = h[p].op,
                            !.id = h[p].id, !.body = h[p].body,
                            !.rnd = h[p].rnd, !.resp = Response(written)]]

Panic(p) ==
    h' = [h EXCEPT ![p] = [IdleHandler EXCEPT !.pc = "panic", !.op = h[p].op,
                            !.id = h[p].id, !.body = h[p].body,
                            !.rnd = h[p].rnd]]

\* the server hands a request to a goroutine
Accept(p, r) ==
    /\ h[p].pc = "idle"
    /\ \A q \in Procs : q < p => h[q].pc # "idle"
    /\ nreq < MaxReqs
    /\ nreq' = nreq + 1
    /\ h' = [h EXCEPT ![p] = [IdleHandler EXCEPT !.pc = Entry(r.op), !.op = r.op,
                               !.id = r.id, !.body = r.body, !.rnd = r.rnd]]
    /\ UNCHANGED <<movies, req, resp, loop, tally>>

\* the goroutine of a finished request goes away
Finish(p) ==
    /\ h[p].pc \in {"done", "panic"}
    /\ h' = [h EXCEPT ![p] = IdleHandler]
    /\ UNCHANGED <<movies, req, resp, loop, nreq, tally>>

getMoviesEncode(p) ==
    /\ h[p].pc = "l_encode"
    /\ Return(p, <<EncodeAll(movies)>>)
    /\ UNCHANGED <<movies, req, resp, loop, nreq, tally>>

\* `i < len(movies)` of the three scans
LoopCond(p, cond, test) ==
    /\ h[p].pc = cond
    /\ IF h[p].i < Len(movies) THEN Goto(p, test) ELSE Return(p, <<>>)
    /\ UNCHANGED <<movies, req, resp, loop, nreq, tally>>

\* a test that leaves the loop, as the loop condition does, when the index
\* is not below the length
LoopTestRechecksBound(p, test, cond, hit) ==
    /\ h[p].pc = test
    /\ IF ~(h[p].i < Len(movies)) THEN Return(p, <<>>)
       ELSE IF movies[h[p].i + 1].ID = h[p].id THEN Goto(p, hit)
       ELSE h' = [h EXCEPT ![p].i = h[p].i + 1, ![p].pc = cond]
    /\ UNCHANGED <<movies, req, resp, loop, nreq, tally>>

\* `movies[i].ID == params["id"]` of the three scans
LoopTest(p, test, cond, hit) ==
    /\ h[p].pc = test
    /\ IF ~(h[p].i < Len(movies)) THEN Panic(p)
       ELSE IF movies[h[p].i + 1].ID = h[p].id THEN Goto(p, hit)
       ELSE h' = [h EXCEPT ![p].i = h[p].i + 1, ![p].pc = cond]
    /\ UNCHANGED <<movies, req, resp, loop, nreq, tally>>

\* the operands movies[:i] and movies[i+1:] of the removing append
RemoveRead(p, from, to) ==
    /\ h[p].pc = from
    /\ IF h[p].i + 1 > Len(movies) THEN Panic(p)
       ELSE h' = [h EXCEPT ![p].snap = movies, ![p].pc = to]
    /\ UNCHANGED <<movies, req, resp, loop, nreq, tally>>

getMovieCond(p) == LoopCond(p, "g_cond", "g_test")

getMovieTest(p) == LoopTest(p, "g_test", "g_cond", "g_encode")

getMovieEncode(p) ==
    /\ h[p].pc = "g_encode"
    /\ IF ~(h[p].i < Len(movies)) THEN Panic(p)
       ELSE Return(p, <<Encode(movies[h[p].i + 1])>>)
    /\ UNCHANGED <<movies, req, resp, loop, nreq, tally>>

deleteMovieCond(p) == LoopCond(p, "d_cond", "d_test")

deleteMovieTest(p) == LoopTest(p, "d_test", "d_cond", "d_read")

deleteMovieRead(p) == RemoveRead(p, "d_read", "d_store")

deleteMovieStore(p) ==
    /\ h[p].pc = "d_store"
    /\ movies' = RemoveAt(h[p].snap, h[p].i)
    /\ Return(p, <<>>)
    /\ UNCHANGED <<req, resp, loop, nreq, tally>>

createMovieRead(p) ==
    /\ h[p].pc = "c_read"
    /\ h' = [h EXCEPT ![p].movie = [Decode(h[p].body) EXCEPT !.ID = Itoa(h[p].rnd)],
                      ![p].snap = movies, ![p].pc = "c_store"]
    /\ UNCHANGED <<movies, req, resp, loop, nreq, tally>>

\* a create that appends to the collection as it is at the write
createMovieStoreAtomic(p) ==
    /\ h[p].pc = "c_store"
    /\ movies' = Append(movies, h[p].movie)
    /\ Return(p, <<Encode(h[p].movie)>>)
    /\ UNCHANGED <<req, resp, loop, nreq, tally>>

createMovieStore(p) ==
    /\ h[p].pc = "c_store"
    /\ movies' = Append(h[p].snap, h[p].movie)
    /\ Return(p, <<Encode(h[p].movie)>>)
    /\ UNCHANGED <<req, resp, loop, nreq, tally>>

updateMovieCond(p) == LoopCond(p, "u_cond", "u_test")

updateMovieTest(p) == LoopTest(p, "u_test", "u_cond", "u_read")

updateMovieRead(p) == RemoveRead(p, "u_read", "u_store")

updateMovieStore(p) ==
    /\ h[p].pc = "u_store"
    /\ movies' = RemoveAt(h[p].snap, h[p].i)
    /\ h' = [h EXCEPT ![p].movie = [Decode(h[p].body) EXCEPT !.ID = h[p].id],
                      ![p].snap = <<>>, ![p].pc = "u_read2"]
    /\ UNCHANGED <<req, resp, loop, nreq, tally>>

updateMovieRead2(p) ==
    /\ h[p].pc = "u_read2"
    /\ h' = [h EXCEPT ![p].snap = movies, ![p].pc = "u_store2"]
    /\ UNCHANGED <<movies, req, resp, loop, nreq, tally>>

updateMovieStore2(p) ==
    /\ h[p].pc = "u_store2"
    /\ movies' = Append(h[p].snap, h[p].movie)
    /\ Return(p, <<Encode(h[p].movie)>>)
    /\ UNCHANGED <<req, resp, loop, nreq, tally>>

Init ==
    /\ movies = Seed
    /\ req = NoRequest
    /\ resp = NoResponse
    /\ loop = NoLoop
    /\ h = [p \in Procs |-> IdleHandler]
    /\ nreq = 0
    /\ tally = [creates |-> 0, deletes |-> 0]

Next ==
    \/ getMovies /\ UNCHANGED tally
    \/ \E id \in PathIds : getMovie(id) /\ UNCHANGED tally
    \/ \E id \in PathIds : deleteMovie(id) /\ UNCHANGED tally
    \/ \E body \in Bodies, rnd \in RandInts :
          createMovie(body, rnd) /\ UNCHANGED tally
    \/ \E id \in PathIds, body \in Bodies :
          updateMovie(id, body) /\ UNCHANGED tally

Spec == Init /\ [][Next]_vars

(***************************************************************************)
(* SpecCount: one request at a time, as Spec, with the requests tallied:   *)
(* the creates, and the deletes whose id some record had.  The creates of  *)
(* a run are bounded.                                                      *)
(***************************************************************************)
NextCount ==
    \/ getMovies /\ UNCHANGED tally
    \/ \E id \in PathIds : getMovie(id) /\ UNCHANGED tally
    \/ \E id \in PathIds :
          /\ deleteMovie(id)
          /\ tally' = IF \E k \in 1..Len(movies) : movies[k].ID = id
                      THEN [tally EXCEPT !.deletes = @ + 1]
                      ELSE tally
    \/ \E body \in Bodies, rnd \in RandInts :
          /\ tally.creates < MaxCreates
          /\ createMovie(body, rnd)
          /\ tally' = [tally EXCEPT !.creates = @ + 1]
    \/ \E id \in PathIds, body \in Bodies :
          updateMovie(id, body) /\ UNCHANGED tally

SpecCount == Init /\ [][NextCount]_vars

NextConc ==
    \E p \in Procs :
        \/ \E r \in Requests : Accept(p, r)
        \/ Finish(p)
        \/ getMoviesEncode(p)
        \/ getMovieCond(p)
        \/ getMovieTest(p)
        \/ getMovieEncode(p)
        \/ deleteMovieCond(p)
        \/ deleteMovieTest(p)
        \/ deleteMovieRead(p)
        \/ deleteMovieStore(p)
        \/ createMovieRead(p)
        \/ createMovieStore(p)
        \/ updateMovieCond(p)
        \/ updateMovieTest(p)
        \/ updateMovieRead(p)
        \/ updateMovieStore(p)
        \/ updateMovieRead2(p)
        \/ updateMovieStore2(p)

SpecConc == Init /\ [][NextConc]_vars

(***************************************************************************)
(* Vocabulary of the properties, independent of the handlers' definitions. *)
(***************************************************************************)
HasId(ms, id) == \E k \in 1..Len(ms) : ms[k].ID = id

\* the position (from 1) of the first record of ms with this id
FirstWithId(ms, id) ==
    CHOOSE k \in 1..Len(ms) :
        ms[k].ID = id /\ \A j \in 1..(k - 1) : ms[j].ID # id

\* ms without the record at position k, the others in their order
Without(ms, k) ==
    [j \in 1..(Len(ms) - 1) |-> IF j < k THEN ms[j] ELSE ms[j + 1]]

\* the JSON object j is the record m
IsJsonOf(j, m) ==
    /\ DOMAIN j = {"id", "isbn", "title", "director"}
    /\ j.id = m.ID /\ j.isbn = m.Isbn /\ j.title = m.Title
    /\ Len(j.director) = Len(m.Director)
    /\ m.Director # <<>> =>
          /\ j.director[1].firstname = m.Director[1].Firstname
          /\ j.director[1].lastname = m.Director[1].Lastname

\* the record m has the isbn, title and director of the request body (the
\* zero values for what the body does not give, and for an unparseable body)
CarriesBody(m, body) ==
    LET has(f) == body.ok /\ f \in DOMAIN body.json
    IN  /\ m.Isbn = IF has("isbn") THEN body.json.isbn ELSE ""
        /\ m.Title = IF has("title") THEN body.json.title ELSE ""
        /\ IF has("director") /\ body.json.director # <<>>
           THEN /\ Len(m.Director) = 1
                /\ m.Director[1].Firstname = body.json.director[1].firstname
                /\ m.Director[1].Lastname = body.json.director[1].lastname
           ELSE m.Director = <<>>

\* a 200 response with the JSON content type and this many encoded values
IsOk(r, n) ==
    r.status = 200 /\ r.contentType = "application/json" /\ Len(r.body) = n

IsDecimal(s) ==
    /\ Len(s) >= 1
    /\ \A k \in 1..Len(s) : \E d \in 1..10 : DigitChars[d] = s[k]
    /\ Len(s) > 1 => s[1] # "0"

RECURSIVE DecimalValue(_)
DecimalValue(s) ==
    IF s = <<>> THEN 0
    ELSE 10 * DecimalValue(SubSeq(s, 1, Len(s) - 1))
         + ((CHOOSE d \in 1..10 : DigitChars[d] = s[Len(s)]) - 1)

(***************************************************************************)
(* C1: an update whose path id some record has removes the first record    *)
(* with that id and appends one record at the end, with the isbn, title    *)
(* and director of the body and the path id whatever id the body has; the  *)
(* length and the order of the other records do not change, and the        *)
(* response body is the new record.                                        *)
(***************************************************************************)
C1_UpdateReplacesFirstMatchAtEnd ==
    [][(req'.op = "update" /\ HasId(movies, req'.id)) =>
          LET n == Len(movies)
              new == movies'[n]
          IN  /\ Len(movies') = n
              /\ SubSeq(movies', 1, n - 1)
                     = Without(movies, FirstWithId(movies, req'.id))
              /\ new.ID = req'.id
              /\ CarriesBody(new, req'.body)
              /\ IsOk(resp', 1)
              /\ IsJsonOf(resp'.body[1], new)]_vars

\* an update of id "1", with a body that names id "2", has moved the first
\* of two records with id "1" to the end
C1_Witness ==
    /\ req.op = "update" /\ req.id = <<"1">> /\ req.body = BodyFull
    /\ loop.i = 0 /\ loop.len = 3
    /\ Len(movies) = 3
    /\ movies[2].ID = <<"1">> /\ ~CarriesBody(movies[2], BodyFull)
    /\ movies[3].ID = <<"1">> /\ CarriesBody(movies[3], BodyFull)
    /\ IsOk(resp, 1)

(***************************************************************************)
(* C2: a create appends exactly one record at the end, for every body and  *)
(* collection; the record has the body's isbn, title and director, its id  *)
(* is the decimal string of the integer drawn, which lies in               *)
(* [0, 1000000), whatever id the body has; the response body is that       *)
(* record, and a list that follows includes it.                            *)
(***************************************************************************)
C2_CreateAppendsOne ==
    [][/\ req'.op = "create" =>
             LET n == Len(movies)
                 new == movies'[n + 1]
             IN  /\ Len(movies') = n + 1
                 /\ SubSeq(movies', 1, n) = movies
                 /\ CarriesBody(new, req'.body)
                 /\ req'.rnd \in 0..(RandLimit - 1)
                 /\ IsDecimal(new.ID)
                 /\ DecimalValue(new.ID) = req'.rnd
                 /\ IsOk(resp', 1)
                 /\ IsJsonOf(resp'.body[1], new)
       /\ (req.op = "create" /\ req'.op = "list") =>
             /\ IsOk(resp', 1)
             /\ Len(resp'.body[1]) = Len(movies)
             /\ resp'.body[1][Len(movies)] = resp.body[1]]_vars

\* a create whose body names id "2" has appended a record with the drawn id
C2_Witness ==
    /\ req.op = "create" /\ req.body = BodyFull /\ req.rnd = RandLimit - 1
    /\ Len(movies) = 3
    /\ movies[3].ID = <<"9", "9", "9", "9", "9", "9">>
    /\ CarriesBody(movies[3], BodyFull)
    /\ IsOk(resp, 1)

(***************************************************************************)
(* C3: a delete whose path id some record has removes exactly the first    *)
(* record with that id; the length decreases by one, the other records     *)
(* keep their order and no response body is written.                       *)
(***************************************************************************)
C3_DeleteRemovesFirstMatch ==
    [][(req'.op = "delete" /\ HasId(movies, req'.id)) =>
          /\ Len(movies') = Len(movies) - 1
          /\ movies' = Without(movies, FirstWithId(movies, req'.id))
          /\ IsOk(resp', 0)]_vars

\* a delete matched the second of three records and left another record
\* with the same id behind it
C3_Witness ==
    /\ req.op = "delete"
    /\ loop.i = 1 /\ loop.len = 3
    /\ Len(movies) = 2
    /\ movies[2].ID = req.id
    /\ IsOk(resp, 0)

(***************************************************************************)
(* C4: a get-by-id answers with the first record, in the order of the      *)
(* collection, that has the path id, and with status 200 and an empty body *)
(* when no record has it; the collection does not change.                  *)
(***************************************************************************)
C4_GetReturnsFirstMatch ==
    [][req'.op = "get" =>
          /\ movies' = movies
          /\ IF HasId(movies, req'.id)
             THEN /\ IsOk(resp', 1)
                  /\ IsJsonOf(resp'.body[1],
                              movies[FirstWithId(movies, req'.id)])
             ELSE IsOk(resp', 0)]_vars

\* a get-by-id answered with the first of two different records that have
\* the path id
C4_Witness ==
    /\ req.op = "get"
    /\ IsOk(resp, 1)
    /\ \E j, k \in 1..Len(movies) :
          /\ j < k
          /\ movies[j].ID = req.id /\ movies[k].ID = req.id
          /\ movies[j] # movies[k]
          /\ IsJsonOf(resp.body[1], movies[j])
          /\ ~IsJsonOf(resp.body[1], movies[k])

(***************************************************************************)
(* C5: after a delete of an id, in any state that creates, updates and     *)
(* deletes reach from the seeded start, a get-by-id of that id that        *)
(* follows at once answers with an empty body, and a list that follows at  *)
(* once has no record with that id.                                        *)
(***************************************************************************)
C5_DeleteThenAbsent ==
    [][/\ (req.op = "delete" /\ req'.op = "get" /\ req'.id = req.id) =>
             IsOk(resp', 0)
       /\ (req.op = "delete" /\ req'.op = "list") =>
             \A k \in 1..Len(resp'.body[1]) : resp'.body[1][k].id # req.id]_vars

(***************************************************************************)
(* C6: a delete of an id that no record has changes nothing in the         *)
(* collection, raises no error, and answers as a delete that removed a     *)
(* record does: status 200, no body.                                       *)
(***************************************************************************)
C6_DeleteAbsentNoOp ==
    [][req'.op = "delete" =>
          /\ IsOk(resp', 0)
          /\ ~HasId(movies, req'.id) => movies' = movies]_vars

\* a delete scanned a collection of two records to its end without a match
C6_Witness ==
    /\ req.op = "delete"
    /\ loop.len = 2 /\ loop.i = loop.len
    /\ Len(movies) = 2 /\ ~HasId(movies, req.id)
    /\ IsOk(resp, 0)

(***************************************************************************)
(* C7: an update whose path id no record has leaves the collection as it   *)
(* was (nothing removed, nothing appended, the body not applied) and       *)
(* writes no response body.                                                *)
(***************************************************************************)
C7_UpdateAbsentNoOp ==
    [][(req'.op = "update" /\ ~HasId(movies, req'.id)) =>
          /\ movies' = movies
          /\ IsOk(resp', 0)]_vars

\* an update with a well-formed body scanned a collection of two records to
\* its end without a match
C7_Witness ==
    /\ req.op = "update" /\ req.body = BodyFull
    /\ loop.len = 2 /\ loop.i = loop.len
    /\ Len(movies) = 2 /\ ~HasId(movies, req.id)
    /\ \A k \in 1..Len(movies) : ~CarriesBody(movies[k], BodyFull)
    /\ IsOk(resp, 0)

(***************************************************************************)
(* C8: ids are not kept unique: a create checks no collision, so a create  *)
(* that draws the id of a record of the collection (a seed's too) still    *)
(* appends its record and answers with it, and a state with two records of *)
(* the same id is reached.                                                 *)
(***************************************************************************)
C8_CollidingCreateAppends ==
    [][(/\ req'.op = "create"
        /\ \E k \in 1..Len(movies) :
              IsDecimal(movies[k].ID) /\ DecimalValue(movies[k].ID) = req'.rnd) =>
          LET new == movies'[Len(movies')]
          IN  /\ Len(movies') = Len(movies) + 1
              /\ DecimalValue(new.ID) = req'.rnd
              /\ \E k \in 1..Len(movies) :
                    movies'[k] = movies[k] /\ movies'[k].ID = new.ID
              /\ IsOk(resp', 1)
              /\ IsJsonOf(resp'.body[1], new)]_vars

\* a create drew 1 while the seed record with id "1" was in the collection:
\* two records have id "1"
C8_Witness ==
    /\ req.op = "create" /\ req.rnd = 1
    /\ Len(movies) = 3
    /\ movies[1] = Seed[1]
    /\ movies[3].ID = movies[1].ID
    /\ IsOk(resp, 1)
    /\ resp.body[1].id = <<"1">>

(***************************************************************************)
(* C9: every handler appears atomic: no state inside a handler is seen by  *)
(* another request; while an update is in progress no concurrent list or   *)
(* get-by-id reads the collection with the matched record removed and its  *)
(* replacement not yet appended.                                           *)
(***************************************************************************)
\* the update p has stored the collection without the matched record and
\* has not yet stored it with the replacement
BetweenRemoveAndAppend(p) == h[p].pc \in {"u_read2", "u_store2"}

\* the list or get-by-id q reads the shared collection in this step
ReadsCollection(q) ==
    /\ h[q].pc \in {"l_encode", "g_cond", "g_test", "g_encode"}
    /\ h'[q] # h[q]

C9_NoIntermediateStateRead ==
    [][\A p, q \in Procs :
          (p # q /\ BetweenRemoveAndAppend(p)) => ~ReadsCollection(q)]_vars

(***************************************************************************)
(* C10: the collection has no synchronization, so two concurrent creates   *)
(* can lose an update: each reads the shared collection, appends and       *)
(* writes it back, and in some interleaving the collection has grown by    *)
(* one record only although both requests returned their created record.   *)
(* What a create writes back is the collection as it read it with its own  *)
(* record appended, whatever was stored between the read and the write.    *)
(***************************************************************************)
C10_CreateWritesBackItsSnapshot ==
    [][\A p \in Procs :
          (h[p].pc = "c_store" /\ h'[p].pc = "done") =>
              /\ Len(movies') = Len(h[p].snap) + 1
              /\ SubSeq(movies', 1, Len(h[p].snap)) = h[p].snap
              /\ movies'[Len(movies')] = h[p].movie
              /\ IsOk(h'[p].resp, 1)
              /\ IsJsonOf(h'[p].resp.body[1], h[p].movie)]_vars

\* the only two requests were creates, both have returned their different
\* records, and the collection holds the seeds and one record more
C10_Witness ==
    /\ nreq = 2
    /\ \A p \in Procs :
          /\ h[p].op = "create" /\ h[p].pc = "done"
          /\ IsOk(h[p].resp, 1)
    /\ h[1].resp.body[1] # h[2].resp.body[1]
    /\ Len(movies) = Len(Seed) + 1
    /\ SubSeq(movies, 1, Len(Seed)) = Seed
    /\ \E p \in Procs : \A k \in 1..Len(movies) :
          ~IsJsonOf(h[p].resp.body[1], movies[k])

(***************************************************************************)
(* C11: a create with an unparseable body is not rejected: it appends a    *)
(* record with an empty isbn, an empty title, no director and a freshly    *)
(* generated id, and answers with that record and status 200; the          *)
(* collection grows by one as for a well-formed body.                      *)
(***************************************************************************)
C11_CreateAbsorbsMalformedBody ==
    [][(req'.op = "create" /\ ~req'.body.ok) =>
          LET n == Len(movies)
              new == movies'[n + 1]
          IN  /\ Len(movies') = n + 1
              /\ SubSeq(movies', 1, n) = movies
              /\ new.Isbn = "" /\ new.Title = "" /\ new.Director = <<>>
              /\ IsDecimal(new.ID) /\ DecimalValue(new.ID) = req'.rnd
              /\ IsOk(resp', 1)
              /\ IsJsonOf(resp'.body[1], new)
              /\ resp'.body[1].director = <<>>]_vars

\* a create with an unparseable body has appended the zero record with the
\* drawn id and answered with it
C11_Witness ==
    /\ req.op = "create" /\ req.body = Malformed /\ req.rnd = RandLimit - 1
    /\ Len(movies) = 3
    /\ movies[3].ID = <<"9", "9", "9", "9", "9", "9">>
    /\ movies[3].Isbn = "" /\ movies[3].Title = "" /\ movies[3].Director = <<>>
    /\ IsOk(resp, 1)
    /\ resp.body[1].id = movies[3].ID /\ resp.body[1].isbn = ""

(***************************************************************************)
(* C12: in the start state, before any request, the collection is the two  *)
(* seed records in insertion order: id "1" (title "Movie One", director    *)
(* Lebron James), then id "2" (title "Movie Two", director Joe Biden); a   *)
(* list returns exactly that sequence.                                     *)
(***************************************************************************)
IsSeedOne(m) ==
    /\ m.ID = <<"1">> /\ m.Title = "Movie One"
    /\ Len(m.Director) = 1
    /\ m.Director[1].Firstname = "Lebron" /\ m.Director[1].Lastname = "James"

IsSeedTwo(m) ==
    /\ m.ID = <<"2">> /\ m.Title = "Movie Two"
    /\ Len(m.Director) = 1
    /\ m.Director[1].Firstname = "Joe" /\ m.Director[1].Lastname = "Biden"

C12_StartsWithTwoSeeds ==
    [][req.op = "start" =>
          /\ Len(movies) = 2
          /\ IsSeedOne(movies[1]) /\ IsSeedTwo(movies[2])
          /\ req'.op = "list" =>
                /\ IsOk(resp', 1)
                /\ Len(resp'.body[1]) = 2
                /\ IsJsonOf(resp'.body[1][1], movies[1])
                /\ IsJsonOf(resp'.body[1][2], movies[2])]_vars

\* the start state: no request yet, the two seeds in the collection
C12_Witness ==
    /\ req.op = "start" /\ resp.status = 0
    /\ Len(movies) = 2
    /\ IsSeedOne(movies[1]) /\ IsSeedTwo(movies[2])

(***************************************************************************)
(* C13: a list returns the whole collection, every record in the order of  *)
(* the collection and none filtered out, and has no side effect: the       *)
(* collection is the same before and after it.                             *)
(***************************************************************************)
C13_ListReturnsAllUnchanged ==
    [][req'.op = "list" =>
          /\ movies' = movies
          /\ IsOk(resp', 1)
          /\ Len(resp'.body[1]) = Len(movies)
          /\ \A k \in 1..Len(movies) : IsJsonOf(resp'.body[1][k], movies[k])]_vars

\* a list of three records, two of the same id and one without a director
C13_Witness ==
    /\ req.op = "list"
    /\ Len(movies) = 3 /\ IsOk(resp, 1) /\ Len(resp.body[1]) = 3
    /\ movies[1].ID = movies[3].ID
    /\ movies[3].Director = <<>> /\ resp.body[1][3].director = <<>>

(***************************************************************************)
(* C14: insertion order is kept except by update: over a run of requests,  *)
(* one at a time, two records that are in the collection before and after  *)
(* a request are in the same order after it, unless the request is an      *)
(* update that matched one of them; create, delete, list and get-by-id     *)
(* never reorder the records that stay.                                    *)
(***************************************************************************)
\* a is b with some records left out, the others in their order
RECURSIVE IsSubsequence(_, _)
IsSubsequence(a, b) ==
    IF a = <<>> THEN TRUE
    ELSE IF b = <<>> THEN FALSE
    ELSE IF Head(a) = Head(b) THEN IsSubsequence(Tail(a), Tail(b))
    ELSE IsSubsequence(a, Tail(b))

\* the positions of m in ms
PositionsOf(ms, m) == {k \in 1..Len(ms) : ms[k] = m}

\* records x and y, each once in ms, x before y
Before(ms, x, y) ==
    /\ Cardinality(PositionsOf(ms, x)) = 1
    /\ Cardinality(PositionsOf(ms, y)) = 1
    /\ \E j \in PositionsOf(ms, x), k \in PositionsOf(ms, y) : j < k

C14_OrderKeptExceptByUpdate ==
    [][/\ req'.op \in {"list", "get"} => movies' = movies
       /\ req'.op = "create" =>
             /\ IsSubsequence(movies, movies')
             /\ SubSeq(movies', 1, Len(movies)) = movies
       /\ req'.op = "delete" => IsSubsequence(movies', movies)
       /\ (req'.op = "update" /\ Len(movies') > 0) =>
             IsSubsequence(SubSeq(movies', 1, Len(movies') - 1), movies)
       /\ \A j, k \in 1..Len(movies) :
             LET x == movies[j]
                 y == movies[k]
                 moved(m) == /\ req'.op = "update"
                             /\ HasId(movies, req'.id)
                             /\ \/ m = movies[FirstWithId(movies, req'.id)]
                                \/ m = movies'[Len(movies')]
             IN  (/\ Before(movies, x, y)
                  /\ Before(movies', x, y) \/ Before(movies', y, x)
                  /\ ~moved(x) /\ ~moved(y))
                 => Before(movies', x, y)]_vars

\* a delete removed the first of three records; the two that stay, of ids
\* "2" and "1", are in the order they had
C14_Witness ==
    /\ req.op = "delete" /\ req.id = <<"1">>
    /\ loop.i = 0 /\ loop.len = 3
    /\ Len(movies) = 2
    /\ IsSeedTwo(movies[1]) /\ movies[2].ID = <<"1">>

(***************************************************************************)
(* C15: every handler invocation, once started, runs to completion and     *)
(* returns its response, without blocking, retrying or being cancelled,    *)
(* when requests run one at a time and when finitely many requests are     *)
(* interleaved on the shared collection.                                   *)
(***************************************************************************)
\* the handler p is between its start and its end
Running(p) == h[p].pc \notin {"idle", "done", "panic"}

\* a step of the handler p
HandlerStep(p) ==
    \/ getMoviesEncode(p)
    \/ getMovieCond(p) \/ getMovieTest(p) \/ getMovieEncode(p)
    \/ deleteMovieCond(p) \/ deleteMovieTest(p)
    \/ deleteMovieRead(p) \/ deleteMovieStore(p)
    \/ createMovieRead(p) \/ createMovieStore(p)
    \/ updateMovieCond(p) \/ updateMovieTest(p)
    \/ updateMovieRead(p) \/ updateMovieStore(p)
    \/ updateMovieRead2(p) \/ updateMovieStore2(p)

C15_HandlersRunToCompletion ==
    \A p \in Procs :
        /\ h[p].pc # "panic"
        /\ h[p].pc = "done" => h[p].resp.status = 200
        /\ Running(p) => ENABLED HandlerStep(p)

(***************************************************************************)
(* C16: a scan of get-by-id, update or delete checks the loop bound        *)
(* (i < len) and reads the element at i as two accesses to the shared      *)
(* collection; when a concurrent delete shrinks the collection between the *)
(* two, the scan accesses an index that is not below the length, an        *)
(* out-of-range access that aborts the handler.  The loop bound held when  *)
(* it was checked, and the read at the index aborts the handler exactly    *)
(* when the index is not below the length at the read.                     *)
(***************************************************************************)
AtLoopCond(p) == h[p].pc \in {"g_cond", "d_cond", "u_cond"}

AtLoopTest(p) == h[p].pc \in {"g_test", "d_test", "u_test"}

C16_ScanReadsOutOfRange ==
    [][\A p \in Procs :
          /\ (AtLoopCond(p) /\ h'[p] # h[p]) =>
                IF h[p].i < Len(movies)
                THEN h'[p].pc \in {"g_test", "d_test", "u_test"}
                ELSE h'[p].pc = "done"
          /\ (AtLoopTest(p) /\ h'[p] # h[p]) =>
                (h'[p].pc = "panic" <=> ~(h[p].i < Len(movies)))]_vars

\* a scan has passed its loop bound at index 1, a concurrent delete has
\* finished and left one record, and the scan is at the read of index 1
C16_Witness ==
    /\ nreq = 2
    /\ Len(movies) = 1
    /\ \E p, q \in Procs :
          /\ AtLoopTest(p) /\ h[p].i = 1
          /\ h[q].op = "delete" /\ h[q].pc = "done"

(***************************************************************************)
(* C17: an update with an unparseable body of an id some record has        *)
(* replaces the record: the matched record is removed and a record with    *)
(* the path id, an empty isbn, an empty title and no director is appended  *)
(* at the end (the former values are gone) and returned with status 200.   *)
(***************************************************************************)
C17_UpdateMalformedReplacesWithZero ==
    [][(req'.op = "update" /\ ~req'.body.ok /\ HasId(movies, req'.id)) =>
          LET n == Len(movies)
              new == movies'[n]
          IN  /\ Len(movies') = n
              /\ SubSeq(movies', 1, n - 1)
                     = Without(movies, FirstWithId(movies, req'.id))
              /\ new.ID = req'.id
              /\ new.Isbn = "" /\ new.Title = "" /\ new.Director = <<>>
              /\ IsOk(resp', 1)
              /\ IsJsonOf(resp'.body[1], new)]_vars

\* an update of seed record "1" with an unparseable body: the record with
\* id "1" is the zero record at the end, and Movie One is gone
C17_Witness ==
    /\ req.op = "update" /\ req.id = <<"1">> /\ req.body = Malformed
    /\ loop.i = 0 /\ loop.len = 2
    /\ Len(movies) = 2
    /\ IsSeedTwo(movies[1])
    /\ movies[2].ID = <<"1">> /\ movies[2].Title = "" /\ movies[2].Isbn = ""
    /\ movies[2].Director = <<>>
    /\ IsOk(resp, 1) /\ resp.body[1].title = ""

(***************************************************************************)
(* C18: in a run of requests one at a time only create can bring in a      *)
(* duplicate id: for every id, update, delete, list and get-by-id never    *)
(* raise the number of records that carry it (an update removes one record *)
(* with the path id and appends one with the path id, whatever id the body *)
(* has); so while no create draws an id that is present, the ids of the    *)
(* collection stay pairwise distinct.                                      *)
(***************************************************************************)
CountOfId(ms, id) == Cardinality({k \in 1..Len(ms) : ms[k].ID = id})

IdsOf(ms) == {ms[k].ID : k \in 1..Len(ms)}

DistinctIds(ms) == \A j, k \in 1..Len(ms) : j # k => ms[j].ID # ms[k].ID

C18_OnlyCreateAddsDuplicateIds ==
    [][/\ req.op = "start" => DistinctIds(movies)
       /\ req'.op \in {"update", "delete", "list", "get"} =>
             \A id \in IdsOf(movies) \cup IdsOf(movies') :
                 CountOfId(movies', id) <= CountOfId(movies, id)
       /\ (req'.op = "update" /\ HasId(movies, req'.id)) =>
             \A id \in IdsOf(movies) \cup IdsOf(movies') :
                 CountOfId(movies', id) = CountOfId(movies, id)
       /\ (/\ DistinctIds(movies)
           /\ req'.op = "create" => ~HasId(movies, movies'[Len(movies')].ID))
          => DistinctIds(movies')]_vars

\* an update of id "1" whose body names id "2", while a record with id "2"
\* is in the collection: the new record has id "1" and the ids are distinct
C18_Witness ==
    /\ req.op = "update" /\ req.id = <<"1">> /\ req.body = BodyFull
    /\ loop.i < loop.len
    /\ HasId(movies, <<"2">>)
    /\ movies[Len(movies)].ID = <<"1">>
    /\ CarriesBody(movies[Len(movies)], BodyFull)
    /\ DistinctIds(movies)

(***************************************************************************)
(* C19: over a run of requests one at a time from the seeded start the     *)
(* length of the collection is 2 + (the creates so far) - (the deletes so  *)
(* far whose id some record had); update, list and get-by-id never change  *)
(* the length, a delete changes it by 0 or -1, and a create by +1.         *)
(***************************************************************************)
C19_LengthAccounting ==
    /\ [](Len(movies) = 2 + tally.creates - tally.deletes)
    /\ [][/\ req'.op \in {"update", "list", "get"} => Len(movies') = Len(movies)
          /\ req'.op = "delete" =>
                Len(movies') = Len(movies) - (IF HasId(movies, req'.id) THEN 1 ELSE 0)
          /\ req'.op = "create" => Len(movies') = Len(movies) + 1]_vars

\* two creates and three deletes that matched: one record is left
C19_Witness ==
    /\ tally.creates = 2 /\ tally.deletes = 3
    /\ Len(movies) = 1
    /\ req.op = "delete" /\ loop.i < loop.len

(***************************************************************************)
(* C20: read-your-write for update: in a state that requests one at a time *)
(* reach, when an update of an id matched a record and returned the record *)
(* m, a get-by-id of that id that follows at once returns exactly m, not   *)
(* another record that carries the id.                                     *)
(***************************************************************************)
C20_GetAfterUpdateReturnsIt ==
    [][(/\ req.op = "update" /\ IsOk(resp, 1)
        /\ req'.op = "get" /\ req'.id = req.id)
       => (IsOk(resp', 1) /\ resp'.body[1] = resp.body[1])]_vars

=============================================================================
